---- MODULE Spec2Model ----
(***************************************************************************)
(* Model of vmanage/api/device_templates.py (class DeviceTemplates): the   *)
(* name <-> id translation of generalTemplates, the catalog listing, the   *)
(* import/reconcile loop and the input-variable extraction.                *)
(*                                                                         *)
(* Python dicts are records (a key is present iff it is in DOMAIN), lists  *)
(* are sequences, and a Python string that is scanned character by         *)
(* character (a column title) is a sequence of one-character strings.      *)
(* Pass-through fields that no decision reads (templateDescription,        *)
(* deviceType, policyId, featureTemplateUidRange, attached_devices, input) *)
(* are left out of the records.                                            *)
(***************************************************************************)
EXTENDS Integers, Sequences, FiniteSets, TLC

VARIABLES
    remote,                  \* the server's device templates: templateName -> object
    desired,                 \* device_template_list handed to import_device_template_list
    pc,                      \* position of the caller / of the running call
    idx,                     \* index of the loop of import_device_template_list
    check_mode,              \* argument check_mode of the running call
    update,                  \* argument update of the running call
    device_template_dict,    \* local: the catalog fetched at line 279
    device_template_updates, \* local: the change records accumulated so far
    result,                  \* what the caller received from the last call
    recorded,                \* for each change record, the index of its desired template
    calls,                   \* indexes on which add_device_template was invoked in this call
    posts,                   \* POSTs the server accepted in this call: <<index, payload>>
    remote0,                 \* the server's templates when the running call started
    prev,                    \* summary of the call before the running one
    response,                \* get_template_input: the JSON body of the server's answer
    return_dict              \* get_template_input: the value returned

vars == <<remote, desired, pc, idx, check_mode, update, device_template_dict,
          device_template_updates, recorded, result, calls, posts, remote0,
          prev, response, return_dict>>

(***************************************************************************)
(* Bounds of the model.                                                    *)
(***************************************************************************)
MaxDesired == 2
MaxNodes == 4
MaxCols == 3
MaxTitle == 5

(***************************************************************************)
(* The feature-template catalog of the server (FeatureTemplates): two user *)
(* templates and one factory default.  "zz" names no feature template.     *)
(***************************************************************************)
FeatureTemplateList ==
    { [templateName |-> "fa", templateId |-> "id-1", factoryDefault |-> FALSE],
      [templateName |-> "fb", templateId |-> "id-2", factoryDefault |-> FALSE],
      [templateName |-> "fd", templateId |-> "id-3", factoryDefault |-> TRUE] }

\* FeatureTemplates.get_feature_template_dict(factory_default, key_name):
\* the catalog as a dict keyed by key_name (list_to_dict).
get_feature_template_dict(factory_default, key_name) ==
    LET kept == {f \in FeatureTemplateList : factory_default \/ ~f.factoryDefault}
    IN  [k \in {f[key_name] : f \in kept} |->
            CHOOSE f \in kept : f[key_name] = k]

(***************************************************************************)
(* generalTemplates_to_id (lines 310-341).  self.fail_json and self.result *)
(* are not attributes of DeviceTemplates, so every failure branch leaves   *)
(* the method with an exception: Raised.                                   *)
(***************************************************************************)
Raised == [ok |-> FALSE]
Returned(v) == [ok |-> TRUE, value |-> v]

\* an unresolvable sub-template is skipped instead of failing
RECURSIVE ConvertSubTemplatesSkip(_, _, _, _)
ConvertSubTemplatesSkip(feature_templates, subs, j, subTemplates) ==
    IF j > Len(subs) THEN Returned(subTemplates)
    ELSE IF subs[j].templateName \in DOMAIN feature_templates
         THEN ConvertSubTemplatesSkip(feature_templates, subs, j + 1,
                  Append(subTemplates,
                         [templateId |-> feature_templates[subs[j].templateName].templateId,
                          templateType |-> subs[j].templateType]))
         ELSE ConvertSubTemplatesSkip(feature_templates, subs, j + 1, subTemplates)

\* lines 324-334: the inner loop over template['subTemplates'], from index j
RECURSIVE ConvertSubTemplates(_, _, _, _)
ConvertSubTemplates(feature_templates, subs, j, subTemplates) ==
    IF j > Len(subs) THEN Returned(subTemplates)
    ELSE IF subs[j].templateName \in DOMAIN feature_templates
         THEN ConvertSubTemplates(feature_templates, subs, j + 1,
                  Append(subTemplates,
                         [templateId |-> feature_templates[subs[j].templateName].templateId,
                          templateType |-> subs[j].templateType]))
         ELSE Raised

\* lines 317-337: one template of the outer loop
ConvertTemplate(feature_templates, template) ==
    IF "templateName" \notin DOMAIN template THEN Raised
    ELSE IF template.templateName \notin DOMAIN feature_templates THEN Raised
    ELSE LET template_item ==
                 [templateId |-> feature_templates[template.templateName].templateId,
                  templateType |-> template.templateType]
         IN  IF "subTemplates" \in DOMAIN template
             THEN LET s == ConvertSubTemplates(feature_templates,
                                               template.subTemplates, 1, <<>>)
                  IN  IF s.ok
                      THEN Returned([templateId |-> template_item.templateId,
                                     templateType |-> template_item.templateType,
                                     subTemplates |-> s.value])
                      ELSE Raised
             ELSE Returned(template_item)

\* lines 313-341: the outer loop, from index i
RECURSIVE ConvertFrom(_, _, _, _)
ConvertFrom(feature_templates, generalTemplates, i, converted_generalTemplates) ==
    IF i > Len(generalTemplates) THEN Returned(converted_generalTemplates)
    ELSE LET c == ConvertTemplate(feature_templates, generalTemplates[i])
         IN  IF c.ok
             THEN ConvertFrom(feature_templates, generalTemplates, i + 1,
                              Append(converted_generalTemplates, c.value))
             ELSE Raised

generalTemplates_to_id(generalTemplates) ==
    ConvertFrom(get_feature_template_dict(TRUE, "templateName"), generalTemplates, 1, <<>>)

(***************************************************************************)
(* get_device_template_list, lines 115-133: ids back to names.             *)
(***************************************************************************)
\* lines 124-130
SubTemplatesToName(feature_template_dict, subs) ==
    [j \in 1..Len(subs) |->
        [templateName |-> feature_template_dict[subs[j].templateId].templateName,
         templateType |-> subs[j].templateType]]

\* the sub-templates are lost on the way back
TemplateToNameFlat(feature_template_dict, old_template) ==
    [templateName |-> feature_template_dict[old_template.templateId].templateName,
     templateType |-> old_template.templateType]

\* lines 118-132
TemplateToName(feature_template_dict, old_template) ==
    IF "subTemplates" \in DOMAIN old_template
    THEN [templateName |-> feature_template_dict[old_template.templateId].templateName,
          templateType |-> old_template.templateType,
          subTemplates |-> SubTemplatesToName(feature_template_dict,
                                              old_template.subTemplates)]
    ELSE [templateName |-> feature_template_dict[old_template.templateId].templateName,
          templateType |-> old_template.templateType]

\* lines 116-133
generalTemplates_to_name(generalTemplates) ==
    LET feature_template_dict == get_feature_template_dict(TRUE, "templateId")
    IN  [i \in 1..Len(generalTemplates) |->
            TemplateToName(feature_template_dict, generalTemplates[i])]

(***************************************************************************)
(* The server.  A device template object carries generalTemplates (by id)  *)
(* when it is feature-based and templateConfiguration when it is a file    *)
(* (CLI) template.  A POST of a template stores it under its templateName. *)
(***************************************************************************)
ServerPost(store, payload) ==
    [n \in DOMAIN store \cup {payload.templateName} |->
        IF n = payload.templateName THEN payload ELSE store[n]]

\* HttpMethods.request: answers, or raises a transport-level error
TransportOutcomes == {"ok", "error"}

(***************************************************************************)
(* get_device_template_list (lines 87-141) over the server's objects.  The *)
(* append to return_list (line 139) is inside `if 'generalTemplates' in    *)
(* obj` (line 115).  The list is handed to list_to_dict, so it is modelled *)
(* as the set of its elements.                                             *)
(***************************************************************************)
get_device_template_list(store, factory_default, name_list) ==
    { [k \in DOMAIN store[n] |->
          IF k = "generalTemplates"
          THEN generalTemplates_to_name(store[n].generalTemplates)
          ELSE store[n][k]] :
      n \in { m \in DOMAIN store :
                /\ (name_list = {} \/ m \in name_list)                 \* line 109
                /\ ~(~factory_default /\ store[m].factoryDefault)      \* line 113
                /\ "generalTemplates" \in DOMAIN store[m] } }          \* line 115

\* list_to_dict(list, key_name, remove_key=True)
list_to_dict(list, key_name) ==
    [k \in {o[key_name] : o \in list} |->
        LET o == CHOOSE x \in list : x[key_name] = k
        IN  [f \in DOMAIN o \ {key_name} |-> o[f]]]

\* get_device_template_dict (lines 143-160) with its default arguments
get_device_template_dict(store) ==
    list_to_dict(get_device_template_list(store, FALSE, {}), "templateName")

(***************************************************************************)
(* dictdiffer.diff as import_device_template_list uses it: on two lists of *)
(* generalTemplates nodes, on two configuration texts, and on {} against a *)
(* list or a text.  An entry is [op, path, items].                         *)
(***************************************************************************)
KeyOrder == <<"templateName", "templateType", "subTemplates">>
KeyKind(k) == IF k = "subTemplates" THEN "list" ELSE "text"
Min(a, b) == IF a < b THEN a ELSE b

RECURSIVE Diff(_, _, _, _)
RECURSIVE DiffListFrom(_, _, _, _)
RECURSIVE DiffDictFrom(_, _, _, _)

\* the recursion over the indexes two lists share, from index i
DiffListFrom(path, first, second, i) ==
    IF i > Min(Len(first), Len(second)) THEN <<>>
    ELSE Diff("dict", Append(path, ToString(i - 1)), first[i], second[i])
         \o DiffListFrom(path, first, second, i + 1)

\* the recursion over the keys two dicts share, from position k of KeyOrder
DiffDictFrom(path, first, second, k) ==
    IF k > Len(KeyOrder) THEN <<>>
    ELSE (IF KeyOrder[k] \in DOMAIN first /\ KeyOrder[k] \in DOMAIN second
          THEN Diff(KeyKind(KeyOrder[k]), Append(path, KeyOrder[k]),
                    first[KeyOrder[k]], second[KeyOrder[k]])
          ELSE <<>>)
         \o DiffDictFrom(path, first, second, k + 1)

Diff(kind, path, first, second) ==
    CASE kind = "text" ->
            IF first = second THEN <<>>
            ELSE << [op |-> "change", path |-> path, items |-> <<first, second>>] >>
      [] kind = "list" ->
            LET n == Min(Len(first), Len(second))
            IN  DiffListFrom(path, first, second, 1)
                \o (IF Len(second) > n
                    THEN << [op |-> "add", path |-> path,
                             items |-> [j \in 1..(Len(second) - n) |->
                                          <<ToString(n + j - 1), second[n + j]>>]] >>
                    ELSE <<>>)
                \o (IF Len(first) > n
                    THEN << [op |-> "remove", path |-> path,
                             items |-> [j \in 1..(Len(first) - n) |->
                                          <<ToString(Len(first) - j),
                                            first[Len(first) - j + 1]>>]] >>
                    ELSE <<>>)
      [] kind = "dict" ->
            LET added   == SelectSeq(KeyOrder,
                              LAMBDA key : key \in DOMAIN second /\ key \notin DOMAIN first)
                removed == SelectSeq(KeyOrder,
                              LAMBDA key : key \in DOMAIN first /\ key \notin DOMAIN second)
            IN  DiffDictFrom(path, first, second, 1)
                \o (IF added # <<>>
                    THEN << [op |-> "add", path |-> path,
                             items |-> [j \in 1..Len(added) |->
                                          <<added[j], second[added[j]]>>]] >>
                    ELSE <<>>)
                \o (IF removed # <<>>
                    THEN << [op |-> "remove", path |-> path,
                             items |-> [j \in 1..Len(removed) |->
                                          <<removed[j], first[removed[j]]>>]] >>
                    ELSE <<>>)

\* dictdiffer.diff({}, second), second a list or a text: the types differ and
\* {} equals neither, so the result is one change entry
DiffEmptyDict(second) ==
    << [op |-> "change", path |-> <<>>, items |-> <<"{}", second>>] >>

(***************************************************************************)
(* add_device_template (lines 224-264): the payload it POSTs, or Raised    *)
(* when it raises before any request is sent.                              *)
(***************************************************************************)
add_device_template(device_template) ==
    IF device_template.configType = "file"                                \* line 247
    THEN IF "templateConfiguration" \in DOMAIN device_template
         THEN Returned([templateName |-> device_template.templateName,
                        factoryDefault |-> device_template.factoryDefault,
                        configType |-> device_template.configType,
                        templateConfiguration |-> device_template.templateConfiguration])
         ELSE Raised                                                       \* KeyError, line 248
    ELSE IF "generalTemplates" \in DOMAIN device_template                  \* line 257
         THEN LET g == generalTemplates_to_id(device_template.generalTemplates)
              IN  IF g.ok
                  THEN Returned([templateName |-> device_template.templateName,
                                 factoryDefault |-> device_template.factoryDefault,
                                 configType |-> device_template.configType,
                                 generalTemplates |-> g.value])
                  ELSE Raised
         ELSE Raised                                                       \* line 260

(***************************************************************************)
(* import_device_template_list (lines 266-308): one pass of the loop body. *)
(***************************************************************************)
\* lines 283-291 and 298-303: the diff of one desired template, or Raised
TemplateDiff(device_template, catalog) ==
    IF device_template.templateName \in DOMAIN catalog
    THEN LET existing_template == catalog[device_template.templateName]
         IN  IF "generalTemplates" \in DOMAIN device_template
             THEN IF "generalTemplates" \in DOMAIN existing_template
                  THEN Returned(Diff("list", <<>>, existing_template.generalTemplates,
                                     device_template.generalTemplates))
                  ELSE Raised                                              \* KeyError
             ELSE IF "templateConfiguration" \in DOMAIN device_template
             THEN IF "templateConfiguration" \in DOMAIN existing_template
                  THEN Returned(Diff("text", <<>>, existing_template.templateConfiguration,
                                     device_template.templateConfiguration))
                  ELSE Raised                                              \* KeyError
             ELSE Raised                                                   \* line 291
    ELSE IF "generalTemplates" \in DOMAIN device_template
         THEN Returned(DiffEmptyDict(device_template.generalTemplates))
         ELSE IF "templateConfiguration" \in DOMAIN device_template
         THEN Returned(DiffEmptyDict(device_template.templateConfiguration))
         ELSE Raised                                                       \* line 303

\* the update flag is not consulted
SubmitExistingAnyway(diff, cm, up) ==
    Len(diff) # 0 /\ ~cm

\* the check-mode flag is not consulted
SubmitExistingUnchecked(diff, cm, up) ==
    Len(diff) # 0 /\ up

\* lines 292-296: is an existing template submitted
SubmitExisting(diff, cm, up) ==
    Len(diff) # 0 /\ (~cm /\ up) /\ ~cm

\* creation made to depend on the update flag
SubmitNewOnUpdate(cm, up) ==
    ~cm /\ up

\* line 305: is a new template submitted
SubmitNew(cm, up) ==
    ~cm

\* the record is appended only when the template is submitted
ImportTemplateRecordOnSubmit(device_template, catalog, cm, up) ==
    LET d == TemplateDiff(device_template, catalog)
        existing == device_template.templateName \in DOMAIN catalog
        submit == IF existing THEN SubmitExisting(d.value, cm, up) ELSE SubmitNew(cm, up)
    IN  IF ~d.ok THEN [raised |-> TRUE, records |-> <<>>, submit |-> FALSE]
        ELSE [raised |-> FALSE,
              records |-> IF submit
                          THEN << [name |-> device_template.templateName, diff |-> d.value] >>
                          ELSE <<>>,
              submit |-> submit]

\* lines 281-306: what the loop body does with one desired template
ImportTemplate(device_template, catalog, cm, up) ==
    LET d == TemplateDiff(device_template, catalog)
    IN  IF ~d.ok THEN [raised |-> TRUE, records |-> <<>>, submit |-> FALSE]
        ELSE IF device_template.templateName \in DOMAIN catalog
        THEN [raised |-> FALSE,
              records |-> IF Len(d.value) # 0                              \* line 292
                          THEN << [name |-> device_template.templateName, diff |-> d.value] >>
                          ELSE <<>>,
              submit |-> SubmitExisting(d.value, cm, up)]
        ELSE [raised |-> FALSE,
              records |-> << [name |-> device_template.templateName, diff |-> d.value] >>,
              submit |-> SubmitNew(cm, up)]

\* the caller is handed the records accumulated before the exception
ResultOnRaisePartial(updates) ==
    [status |-> "raised", value |-> updates]

\* an exception leaves import_device_template_list: the caller gets no list
ResultOnRaise(updates) ==
    [status |-> "raised", value |-> <<>>]

\* line 308
ResultOnReturn(updates) ==
    [status |-> "returned", value |-> updates]

NoResult == [status |-> "none", value |-> <<>>]
NoCall == [status |-> "none"]

\* what is kept of a finished call
Summary ==
    [status |-> result.status, value |-> result.value, check_mode |-> check_mode,
     update |-> update, catalog |-> device_template_dict, calls |-> calls,
     recorded |-> recorded,
     posts |-> posts, before |-> remote0, after |-> remote]

(***************************************************************************)
(* The inputs.                                                             *)
(***************************************************************************)
Node(n, t) == [templateName |-> n, templateType |-> t]
NodeWithSubs(n, t, s) == [templateName |-> n, templateType |-> t, subTemplates |-> s]

FeatureTemplate(n, gt) ==
    [templateName |-> n, configType |-> "feature", factoryDefault |-> FALSE,
     generalTemplates |-> gt]
FileTemplate(n, text) ==
    [templateName |-> n, configType |-> "file", factoryDefault |-> FALSE,
     templateConfiguration |-> text]
\* a document that is neither file- nor feature-shaped
ShapelessTemplate(n) ==
    [templateName |-> n, configType |-> "feature", factoryDefault |-> FALSE]

GTa == << Node("fa", "system") >>
GTb == << NodeWithSubs("fa", "system", << Node("fd", "logging") >>), Node("fb", "vpn") >>
GTbad == << NodeWithSubs("fa", "system", << Node("fb", "vpn"), Node("zz", "vpn") >>) >>

DesiredTemplates ==
    { FeatureTemplate("T1", GTa), FeatureTemplate("T1", GTb), FeatureTemplate("T1", GTbad),
      ShapelessTemplate("T1"), FileTemplate("T1", "cfg-1"),
      FileTemplate("T2", "cfg-1"), FileTemplate("T2", "cfg-2"), FeatureTemplate("T2", GTa) }

RECURSIVE SeqsUpTo(_, _)
SeqsUpTo(S, n) ==
    IF n = 0 THEN { <<>> }
    ELSE LET shorter == SeqsUpTo(S, n - 1)
         IN  shorter \cup { Append(q, x) : q \in shorter, x \in S }

DesiredLists == SeqsUpTo(DesiredTemplates, MaxDesired) \ { <<>> }

\* what the server holds of a template: add_device_template's payload
Stored(device_template) == add_device_template(device_template).value

InitialRemotes ==
    { <<>>,
      [n \in {"T1", "T2"} |->
          IF n = "T1" THEN Stored(FeatureTemplate("T1", GTa))
          ELSE Stored(FileTemplate("T2", "cfg-1"))],
      [n \in {"T1", "T2"} |->
          IF n = "T1" THEN Stored(FeatureTemplate("T1", GTb))
          ELSE [Stored(FeatureTemplate("T2", GTa)) EXCEPT !.factoryDefault = TRUE]] }

NoResponse == [status |-> "none"]

Init ==
    /\ remote \in InitialRemotes
    /\ desired \in DesiredLists
    /\ pc = "idle"
    /\ idx = 0
    /\ check_mode = FALSE
    /\ update = FALSE
    /\ device_template_dict = <<>>
    /\ device_template_updates = <<>>
    /\ recorded = <<>>
    /\ result = NoResult
    /\ calls = <<>>
    /\ posts = <<>>
    /\ remote0 = remote
    /\ prev = NoCall
    /\ response = NoResponse
    /\ return_dict = NoResponse

(***************************************************************************)
(* The caller invokes import_device_template_list(desired, cm, up), one    *)
(* call after the other: lines 278-279.                                    *)
(***************************************************************************)
CallImport(cm, up) ==
    /\ pc \in {"idle", "done", "failed"}
    /\ prev' = IF pc = "idle" THEN prev ELSE Summary
    /\ check_mode' = cm
    /\ update' = up
    /\ device_template_updates' = <<>>
    /\ recorded' = <<>>
    /\ device_template_dict' = get_device_template_dict(remote)
    /\ idx' = 1
    /\ calls' = <<>>
    /\ posts' = <<>>
    /\ remote0' = remote
    /\ result' = NoResult
    /\ pc' = "loop"
    /\ UNCHANGED <<remote, desired, response, return_dict>>

\* lines 291, 303 (or a KeyError at 285, 288): the loop body raises
ImportRaise ==
    /\ pc = "loop" /\ idx <= Len(desired)
    /\ ImportTemplate(desired[idx], device_template_dict, check_mode, update).raised
    /\ pc' = "failed"
    /\ result' = ResultOnRaise(device_template_updates)
    /\ UNCHANGED <<remote, desired, idx, check_mode, update, device_template_dict,
                   device_template_updates, recorded, calls, posts, remote0, prev,
                   response, return_dict>>

\* the loop body without a submission
ImportKeep ==
    /\ pc = "loop" /\ idx <= Len(desired)
    /\ LET o == ImportTemplate(desired[idx], device_template_dict, check_mode, update)
       IN  /\ ~o.raised /\ ~o.submit
           /\ device_template_updates' = device_template_updates \o o.records
           /\ recorded' = recorded \o [k \in 1..Len(o.records) |-> idx]
    /\ idx' = idx + 1
    /\ UNCHANGED <<remote, desired, pc, check_mode, update, device_template_dict,
                   result, calls, posts, remote0, prev, response, return_dict>>

\* the loop body with a call of add_device_template (lines 296, 306)
ImportSubmit(transport) ==
    /\ pc = "loop" /\ idx <= Len(desired)
    /\ LET o == ImportTemplate(desired[idx], device_template_dict, check_mode, update)
           a == add_device_template(desired[idx])
       IN  /\ ~o.raised /\ o.submit
           /\ calls' = Append(calls, idx)
           /\ device_template_updates' = device_template_updates \o o.records
           /\ recorded' = recorded \o [k \in 1..Len(o.records) |-> idx]
           /\ IF a.ok /\ transport = "ok"
              THEN /\ remote' = ServerPost(remote, a.value)
                   /\ posts' = Append(posts, <<idx, a.value>>)
                   /\ idx' = idx + 1
                   /\ UNCHANGED <<pc, result>>
              ELSE /\ pc' = "failed"
                   /\ result' = ResultOnRaise(device_template_updates \o o.records)
                   /\ UNCHANGED <<remote, posts, idx>>
    /\ UNCHANGED <<desired, check_mode, update, device_template_dict, remote0, prev,
                   response, return_dict>>

\* line 308
ImportReturn ==
    /\ pc = "loop" /\ idx > Len(desired)
    /\ pc' = "done"
    /\ result' = ResultOnReturn(device_template_updates)
    /\ UNCHANGED <<remote, desired, idx, check_mode, update, device_template_dict,
                   device_template_updates, recorded, calls, posts, remote0, prev,
                   response, return_dict>>

Next ==
    \/ \E cm \in BOOLEAN, up \in BOOLEAN : CallImport(cm, up)
    \/ ImportRaise
    \/ ImportKeep
    \/ \E transport \in TransportOutcomes : ImportSubmit(transport)
    \/ ImportReturn

Spec == Init /\ [][Next]_vars

(***************************************************************************)
(* Properties of import_device_template_list.                              *)
(***************************************************************************)
Range(q) == { q[k] : k \in 1..Len(q) }
InCall == pc \in {"loop", "done", "failed"}
\* the loop body has run on desired[i], to its end or to an exception
Reached(i) == InCall /\ (i < idx \/ (i = idx /\ pc = "failed"))
Absent(i) == desired[i].templateName \notin DOMAIN device_template_dict
Shaped(t) == "generalTemplates" \in DOMAIN t \/ "templateConfiguration" \in DOMAIN t

\* C1: a call with check_mode=True never invokes add_device_template and
\* sends no create/update POST, whatever update is: the server's device
\* templates stay what they were when the call started.
C1_CheckModeSubmitsNothing ==
    (InCall /\ check_mode) => (calls = <<>> /\ posts = <<>> /\ remote = remote0)

\* a finished check-mode call with update=True that recorded a change for an
\* existing template and for a new one
C1_Witness ==
    /\ pc = "done" /\ check_mode /\ update
    /\ \E i \in Range(recorded) : ~Absent(i)
    /\ \E i \in Range(recorded) : Absent(i)

\* C2: two calls on the same desired list, from the same server state and
\* with the same update, one with check_mode=True and one with
\* check_mode=False, return the same list of change records.
C2_CheckModeSameRecords ==
    ( /\ pc = "done" /\ prev.status = "returned"
      /\ prev.check_mode # check_mode
      /\ prev.update = update
      /\ prev.before = remote0 )
    => result.value = prev.value

\* a check-mode call followed by a real call that posts, both returning a
\* non-empty list
C2_Witness ==
    /\ pc = "done" /\ prev.status = "returned"
    /\ prev.check_mode /\ ~check_mode /\ prev.update = update
    /\ prev.before = remote0
    /\ posts # <<>> /\ result.value # <<>>

\* C3: of two consecutive calls with update=True and check_mode=False on the
\* same desired list, the first returning a non-empty list, the second
\* returns no change record.
C3_SecondCallEmpty ==
    ( /\ pc = "done" /\ prev.status = "returned"
      /\ ~check_mode /\ update /\ ~prev.check_mode /\ prev.update
      /\ prev.after = remote0
      /\ prev.value # <<>> )
    => result.value = <<>>

\* C4: a desired file template whose name and templateConfiguration are
\* those of a non-factory-default template of the server is found in the
\* fetched catalog, gets no change record and is not submitted.
C4_FileTemplateInCatalog ==
    \A i \in 1..Len(desired) :
        ( /\ Reached(i)
          /\ desired[i].configType = "file"
          /\ desired[i].templateName \in DOMAIN remote0
          /\ ~remote0[desired[i].templateName].factoryDefault
          /\ "templateConfiguration" \in DOMAIN remote0[desired[i].templateName]
          /\ remote0[desired[i].templateName].templateConfiguration
               = desired[i].templateConfiguration )
        => ( /\ ~Absent(i)
             /\ i \notin Range(recorded)
             /\ i \notin Range(calls) )

\* C5: with check_mode=False, every desired template on which the loop body
\* ran and whose name is absent from the fetched catalog was handed to
\* add_device_template and has a change record with a non-empty diff, for
\* update=True and for update=False.
C5_NewAlwaysSubmitted ==
    \A i \in 1..Len(desired) :
        (Reached(i) /\ ~check_mode /\ Absent(i) /\ Shaped(desired[i]))
        => ( /\ i \in Range(calls)
             /\ \E k \in 1..Len(recorded) :
                   /\ recorded[k] = i
                   /\ device_template_updates[k].name = desired[i].templateName
                   /\ Len(device_template_updates[k].diff) > 0 )

\* a finished call with update=False that created a template
C5_Witness ==
    /\ pc = "done" /\ ~check_mode /\ ~update
    /\ \E k \in 1..Len(posts) : Absent(posts[k][1])

\* C6: for a desired template whose name is in the fetched catalog, a change
\* record is appended iff the existing and the desired payload differ, and
\* the template is submitted iff they differ, check_mode is False and update
\* is True.
C6_ExistingRecordedAndSubmitted ==
    \A i \in 1..Len(desired) :
        ( /\ Reached(i) /\ ~Absent(i)
          /\ "generalTemplates" \in DOMAIN desired[i] )
        => LET differs == device_template_dict[desired[i].templateName].generalTemplates
                            # desired[i].generalTemplates
           IN  /\ (i \in Range(recorded)) <=> differs
               /\ (i \in Range(calls)) <=> (differs /\ ~check_mode /\ update)

\* a finished call that updated an existing template and left another,
\* matching one alone
C6_Witness ==
    /\ pc = "done"
    /\ \E k \in 1..Len(posts) : ~Absent(posts[k][1])
    /\ \E i \in 1..Len(desired) :
          ~Absent(i) /\ i \notin Range(recorded) /\ Shaped(desired[i])

\* C7 as stated: when the call fails at the k-th template, the submissions
\* made before are still on the server and their change records are in the
\* list the caller receives.
C7_PartialListReceived ==
    pc = "failed" =>
        \A k \in 1..Len(posts) :
            /\ posts[k][2].templateName \in DOMAIN remote
            /\ \E r \in 1..Len(result.value) :
                  result.value[r].name = posts[k][2].templateName

\* C7, amended: when the call fails at the k-th template, the submissions
\* made before are still on the server (nothing is rolled back), and the
\* caller receives an exception and no list of change records.
C7_PartialNotRolledBack ==
    pc = "failed" =>
        /\ result.status = "raised" /\ result.value = <<>>
        /\ \A k \in 1..Len(posts) :
              (\A l \in (k + 1)..Len(posts) :
                    posts[l][2].templateName # posts[k][2].templateName)
              => /\ posts[k][2].templateName \in DOMAIN remote
                 /\ remote[posts[k][2].templateName] = posts[k][2]

\* a call that failed after a submission went through
C7_Witness ==
    pc = "failed" /\ posts # <<>> /\ device_template_updates # <<>>

(***************************************************************************)
(* add_device_template called on its own and read back through            *)
(* get_device_template_dict, over every generalTemplates tree of at most   *)
(* MaxNodes nodes.                                                         *)
(***************************************************************************)
Leaves == { Node("fa", "system"), Node("fd", "vpn"), Node("zz", "vpn") }

RECURSIVE SeqsOfLen(_, _)
SeqsOfLen(S, n) ==
    IF n = 0 THEN { <<>> }
    ELSE { Append(q, x) : q \in SeqsOfLen(S, n - 1), x \in S }

\* the nodes that count k nodes, their sub-templates included
NodesOfSize(k) ==
    { NodeWithSubs(l.templateName, l.templateType, s) :
          l \in Leaves, s \in SeqsOfLen(Leaves, k - 1) }
    \cup (IF k = 1 THEN Leaves ELSE {})

\* the generalTemplates lists that count exactly n nodes
RECURSIVE TreesOfSize(_)
TreesOfSize(n) ==
    IF n = 0 THEN { <<>> }
    ELSE UNION { { <<nd>> \o rest : nd \in NodesOfSize(k), rest \in TreesOfSize(n - k) } :
                 k \in 1..n }

AllGeneralTemplates == UNION { TreesOfSize(n) : n \in 0..MaxNodes }

InitResolve ==
    /\ remote = <<>>
    /\ desired \in { << FeatureTemplate("T1", gt) >> : gt \in AllGeneralTemplates }
    /\ pc = "start"
    /\ idx = 1
    /\ check_mode = FALSE
    /\ update = FALSE
    /\ device_template_dict = <<>>
    /\ device_template_updates = <<>>
    /\ recorded = <<>>
    /\ result = NoResult
    /\ calls = <<>>
    /\ posts = <<>>
    /\ remote0 = remote
    /\ prev = NoCall
    /\ response = NoResponse
    /\ return_dict = NoResponse

\* add_device_template(desired[1]), lines 224-264
AddDeviceTemplate(transport) ==
    /\ pc = "start"
    /\ calls' = Append(calls, idx)
    /\ LET a == add_device_template(desired[idx])
       IN  IF a.ok /\ transport = "ok"
           THEN /\ remote' = ServerPost(remote, a.value)
                /\ posts' = Append(posts, <<idx, a.value>>)
                /\ pc' = "added"
                /\ UNCHANGED result
           ELSE /\ pc' = "raised"
                /\ result' = ResultOnRaise(<<>>)
                /\ UNCHANGED <<remote, posts>>
    /\ UNCHANGED <<desired, idx, check_mode, update, device_template_dict,
                   device_template_updates, recorded, remote0, prev,
                   response, return_dict>>

\* get_device_template_dict(), lines 143-160
GetDeviceTemplateDict ==
    /\ pc = "added"
    /\ device_template_dict' = get_device_template_dict(remote)
    /\ pc' = "listed"
    /\ UNCHANGED <<remote, desired, idx, check_mode, update, device_template_updates,
                   recorded, result, calls, posts, remote0, prev, response, return_dict>>

NextResolve ==
    \/ \E transport \in TransportOutcomes : AddDeviceTemplate(transport)
    \/ GetDeviceTemplateDict

SpecResolve == InitResolve /\ [][NextResolve]_vars

KnownNames == { f.templateName : f \in FeatureTemplateList }
NamesOf(template) ==
    {template.templateName}
    \cup (IF "subTemplates" \in DOMAIN template
          THEN { template.subTemplates[j].templateName :
                     j \in 1..Len(template.subTemplates) }
          ELSE {})
Unresolvable(generalTemplates) ==
    \E i \in 1..Len(generalTemplates) : ~(NamesOf(generalTemplates[i]) \subseteq KnownNames)

\* C8: when any top-level or sub-template name of the generalTemplates is
\* absent from the feature-template catalog (factory defaults included),
\* resolution fails as a whole, whatever the other names are: the call of
\* add_device_template raises, no POST is sent and the server is unchanged.
C8_UnknownNameFailsWhole ==
    (pc # "start" /\ Unresolvable(desired[1].generalTemplates))
    => (pc = "raised" /\ result.value = <<>> /\ posts = <<>> /\ remote = remote0)

\* a failed resolution in which only one sub-template name is unknown: its
\* sibling, its parent and the other top-level template resolve
C8_Witness ==
    /\ pc = "raised" /\ posts = <<>>
    /\ Len(desired[1].generalTemplates) = 2
    /\ NamesOf(desired[1].generalTemplates[2]) \subseteq KnownNames
    /\ desired[1].generalTemplates[1].templateName \in KnownNames
    /\ "subTemplates" \in DOMAIN desired[1].generalTemplates[1]
    /\ Len(desired[1].generalTemplates[1].subTemplates) = 2
    /\ desired[1].generalTemplates[1].subTemplates[1].templateName \in KnownNames
    /\ desired[1].generalTemplates[1].subTemplates[2].templateName \notin KnownNames

\* C9: a generalTemplates list whose names all resolve, converted to ids by
\* generalTemplates_to_id and back to names by get_device_template_list, has
\* the same templateName and templateType at every position of both levels,
\* in the same order, and subTemplates exactly where it had them.
C9_RoundTrip ==
    pc = "listed" =>
        /\ "T1" \in DOMAIN device_template_dict
        /\ LET g == desired[1].generalTemplates
               b == device_template_dict["T1"].generalTemplates
           IN  /\ Len(b) = Len(g)
               /\ \A i \in 1..Len(g) :
                     /\ b[i].templateName = g[i].templateName
                     /\ b[i].templateType = g[i].templateType
                     /\ ("subTemplates" \in DOMAIN b[i]) <=> ("subTemplates" \in DOMAIN g[i])
                     /\ "subTemplates" \in DOMAIN g[i] =>
                           /\ "subTemplates" \in DOMAIN b[i]
                           /\ Len(b[i].subTemplates) = Len(g[i].subTemplates)
                           /\ \A j \in 1..Len(g[i].subTemplates) :
                                 /\ b[i].subTemplates[j].templateName
                                      = g[i].subTemplates[j].templateName
                                 /\ b[i].subTemplates[j].templateType
                                      = g[i].subTemplates[j].templateType

\* a round trip of two top-level templates, the first with two different
\* sub-templates, one of them a factory default
C9_Witness ==
    /\ pc = "listed"
    /\ Len(desired[1].generalTemplates) = 2
    /\ "subTemplates" \in DOMAIN desired[1].generalTemplates[1]
    /\ "subTemplates" \notin DOMAIN desired[1].generalTemplates[2]
    /\ Len(desired[1].generalTemplates[1].subTemplates) = 2
    /\ desired[1].generalTemplates[1].subTemplates[1].templateName = "fd"
    /\ desired[1].generalTemplates[1].subTemplates[2].templateName = "fa"
    /\ desired[1].generalTemplates[1].templateType
         # desired[1].generalTemplates[2].templateType

(***************************************************************************)
(* get_template_input (lines 185-222).  A title is a sequence of           *)
(* characters; None is Python's None.                                      *)
(***************************************************************************)
None == << "<None>" >>
NoMatch == [matched |-> FALSE, variable |-> None]
Match(text) == [matched |-> TRUE, variable |-> text]

Max(S) == CHOOSE x \in S : \A y \in S : y <= x

\* line 209, the pattern \((?P<variable>[^(]+)\) tried at position i: '(',
\* then as many characters other than '(' as still leave a ')' to close the
\* match; the position of that ')' or 0 when the pattern does not match at i
MatchEnd(title, i) ==
    IF title[i] # "(" THEN 0
    ELSE LET ends == { j \in (i + 2)..Len(title) :
                         /\ title[j] = ")"
                         /\ \A k \in (i + 1)..(j - 1) : title[k] # "(" }
         IN  IF ends = {} THEN 0 ELSE Max(ends)

\* regex.search(title), line 213: the match at the leftmost position, from i
RECURSIVE SearchFrom(_, _)
SearchFrom(title, i) ==
    IF i > Len(title) THEN NoMatch
    ELSE IF MatchEnd(title, i) > 0
         THEN Match(SubSeq(title, i + 1, MatchEnd(title, i) - 1))
         ELSE SearchFrom(title, i + 1)

\* every column is kept
ColumnKeptAlways(column) ==
    TRUE

\* line 212
ColumnKept(column) ==
    column.editable

\* lines 211-220: the loop over column_list, from index i
RECURSIVE EntriesFrom(_, _, _)
EntriesFrom(column_list, i, columns) ==
    IF i > Len(column_list) THEN columns
    ELSE IF ColumnKept(column_list[i])
         THEN EntriesFrom(column_list, i + 1,
                  Append(columns,
                         [title |-> column_list[i].title,
                          property |-> column_list[i].property,
                          variable |-> SearchFrom(column_list[i].title, 1).variable]))
         ELSE EntriesFrom(column_list, i + 1, columns)

\* lines 196-222, on the JSON body of the answer
get_template_input(json) ==
    IF /\ DOMAIN json # {}                                                 \* line 205
       /\ "header" \in DOMAIN json                                         \* line 206
       /\ "columns" \in DOMAIN json.header
    THEN [columns |-> EntriesFrom(json.header.columns, 1, <<>>)]
    ELSE [columns |-> <<>>]

\* "Hostname (hostname)"
TitleHostname ==
    << "H", "o", "s", "t", "n", "a", "m", "e", " ", "(", "h", "o", "s", "t", "n", "a", "m", "e", ")" >>
\* "Description"
TitleDescription ==
    << "D", "e", "s", "c", "r", "i", "p", "t", "i", "o", "n" >>
\* "Rate (kbps) (rate)"
TitleRate ==
    << "R", "a", "t", "e", " ", "(", "k", "b", "p", "s", ")", " ", "(", "r", "a", "t", "e", ")" >>

SampleColumns ==
    { [title |-> TitleHostname, property |-> "host-name", editable |-> TRUE],
      [title |-> TitleHostname, property |-> "host-name-ro", editable |-> FALSE],
      [title |-> TitleDescription, property |-> "description", editable |-> TRUE],
      [title |-> TitleRate, property |-> "rate", editable |-> TRUE],
      [title |-> TitleRate, property |-> "rate-ro", editable |-> FALSE] }

TitleAlphabet == { "(", ")", "a" }

ColumnLists ==
    SeqsUpTo(SampleColumns, MaxCols)
    \cup { << [title |-> t, property |-> "p", editable |-> e] >> :
              t \in SeqsUpTo(TitleAlphabet, MaxTitle), e \in BOOLEAN }

Responses ==
    { [json |-> <<>>],
      [json |-> [data |-> <<>>]],
      [json |-> [header |-> [rows |-> <<>>]]] }
    \cup { [json |-> [header |-> [columns |-> c]]] : c \in ColumnLists }

InitInput ==
    /\ remote = <<>>
    /\ desired = <<>>
    /\ pc = "start"
    /\ idx = 0
    /\ check_mode = FALSE
    /\ update = FALSE
    /\ device_template_dict = <<>>
    /\ device_template_updates = <<>>
    /\ recorded = <<>>
    /\ result = NoResult
    /\ calls = <<>>
    /\ posts = <<>>
    /\ remote0 = remote
    /\ prev = NoCall
    /\ response \in Responses
    /\ return_dict = NoResponse

\* get_template_input(template_id) on the server's answer
GetTemplateInput ==
    /\ pc = "start"
    /\ return_dict' = get_template_input(response.json)
    /\ pc' = "returned"
    /\ UNCHANGED <<remote, desired, idx, check_mode, update, device_template_dict,
                   device_template_updates, recorded, result, calls, posts, remote0,
                   prev, response>>

NextInput == GetTemplateInput

SpecInput == InitInput /\ [][NextInput]_vars

\* title[i..j] is a parenthesized token with no '(' inside
Token(title, i, j) ==
    /\ i >= 1 /\ j <= Len(title) /\ j >= i + 2
    /\ title[i] = "(" /\ title[j] = ")"
    /\ \A k \in (i + 1)..(j - 1) : title[k] # "("
HasToken(title) ==
    \E i \in 1..Len(title), j \in 1..Len(title) : Token(title, i, j)
HeaderColumns ==
    IF "header" \in DOMAIN response.json /\ "columns" \in DOMAIN response.json.header
    THEN response.json.header.columns
    ELSE <<>>

\* C10: get_template_input returns one entry per editable column of the
\* response header, in response order, and none for a non-editable column;
\* an entry carries the column's title and property, and its variable is the
\* text inside the first parenthesized token of the title that contains no
\* '(' , or None when the title has no such token.
C10_EditableColumnsAndVariables ==
    pc = "returned" =>
        LET editable == SelectSeq(HeaderColumns, LAMBDA c : c.editable)
            out == return_dict.columns
        IN  /\ Len(out) = Len(editable)
            /\ \A k \in 1..Len(editable) :
                  /\ out[k].title = editable[k].title
                  /\ out[k].property = editable[k].property
                  /\ IF HasToken(editable[k].title)
                     THEN \E i \in 1..Len(editable[k].title), j \in 1..Len(editable[k].title) :
                             /\ Token(editable[k].title, i, j)
                             /\ out[k].variable = SubSeq(editable[k].title, i + 1, j - 1)
                             /\ \A i2 \in 1..(i - 1), j2 \in 1..Len(editable[k].title) :
                                   ~Token(editable[k].title, i2, j2)
                     ELSE out[k].variable = None

\* "Hostname (hostname)" gives hostname, "Description" gives None and a
\* non-editable column between them is left out
C10_Witness ==
    /\ pc = "returned"
    /\ Len(HeaderColumns) = 3
    /\ ~HeaderColumns[2].editable
    /\ Len(return_dict.columns) = 2
    /\ return_dict.columns[1].title = TitleHostname
    /\ return_dict.columns[1].variable = << "h", "o", "s", "t", "n", "a", "m", "e" >>
    /\ return_dict.columns[2].title = TitleDescription
    /\ return_dict.columns[2].variable = None

====
